---- MODULE Spec2Model ----
(***************************************************************************)
(* Live order book viewer: the feed client (client.rs), the message        *)
(* decoders and the book store (model.rs), the terminal layer (tui.rs) and *)
(* the poll loop that drives them (main.rs).                               *)
(***************************************************************************)
EXTENDS Integers, Sequences, FiniteSets, TLC

(***************************************************************************)
(* Bounds of the model.                                                    *)
(***************************************************************************)
\* longest `changes` array of a delivered frame
MaxChanges == 2
\* most [price, size] pairs in the bids and asks arrays of a frame, together
MaxLevels == 2
\* most levels the book holds (bids and asks together) before appends stop
MaxBook == 3

(***************************************************************************)
(* Option<T>                                                               *)
(***************************************************************************)
None == [some |-> FALSE]
Some(x) == [some |-> TRUE, val |-> x]

(***************************************************************************)
(* serde_json::Value.  Strings and numbers carry their text; an object     *)
(* carries one entry per key the decoders look up, Absent for a key the    *)
(* object does not have.                                                   *)
(***************************************************************************)
Str(s) == [k |-> "str", v |-> s]
Num(s) == [k |-> "num", v |-> s]
Arr(q) == [k |-> "arr", v |-> q]
Absent == [k |-> "absent", v |-> ""]
Obj(t, p, tm, ch, b, a) ==
    [k |-> "obj",
     v |-> [type |-> t, product_id |-> p, time |-> tm, changes |-> ch, bids |-> b, asks |-> a]]

\* Value::get(key): None on a non-object and on a missing key
Get(value, key) ==
    IF value.k = "obj" /\ value.v[key].k # "absent" THEN Some(value.v[key]) ELSE None

\* Value::as_str
AsStr(value) == IF value.k = "str" THEN Some(value.v) ELSE None

\* Value::as_array
AsArray(value) == IF value.k = "arr" THEN Some(value.v) ELSE None

(***************************************************************************)
(* f64.  The finite values of the model are integers; NaN is the one value *)
(* that compares with nothing, itself included.                            *)
(***************************************************************************)
NaN == -1

\* str::parse::<f64>: "NaN" is accepted, and several texts give one value
ParseF64(s) ==
    CASE s = "0.00000000" -> Some(0)
      [] s = "1" -> Some(1)
      [] s = "1.0" -> Some(1)
      [] s = "2" -> Some(2)
      [] s = "NaN" -> Some(NaN)
      [] OTHER -> None

\* f64 == f64
F64Eq(a, b) == a # NaN /\ b # NaN /\ a = b

\* f64::partial_cmp
PartialCmp(a, b) ==
    IF a = NaN \/ b = NaN THEN None
    ELSE IF a < b THEN Some("Less")
    ELSE IF a > b THEN Some("Greater")
    ELSE Some("Equal")

\* str::parse::<DateTime<Utc>>
ParseTime(s) == IF s = "2022-08-04T15:25:05.010758Z" THEN Some(s) ELSE None

(***************************************************************************)
(* model.rs: Level, OrderSide, OrderBookDiff and the decoders.             *)
(***************************************************************************)
\* Value -> f64: as_str()?.parse().ok()?
ParseNumber(value) ==
    LET s == AsStr(value) IN IF s.some THEN ParseF64(s.val) ELSE None

\* Level::from_value
LevelFromValue(value) ==
    LET arr == AsArray(value) IN
    IF ~arr.some THEN None
    ELSE IF Len(arr.val) # 2 THEN None
    ELSE LET price == ParseNumber(arr.val[1])
             size == ParseNumber(arr.val[2])
         IN IF ~size.some THEN None
            ELSE IF ~price.some THEN None
            ELSE Some([size |-> size.val, price |-> price.val])

\* OrderSide::try_from(&str)
OrderSideTryFrom(s) ==
    CASE s = "buy" -> Some("Buy")
      [] s = "sell" -> Some("Sell")
      [] OTHER -> None

\* the closure of Level2Update::from_value that decodes one element of `changes`
DiffFromValue(value) ==
    LET arr == AsArray(value) IN
    IF ~arr.some THEN None
    ELSE IF Len(arr.val) # 3 THEN None
    ELSE LET side_str == AsStr(arr.val[1]) IN
         IF ~side_str.some THEN None
         ELSE LET order_side == OrderSideTryFrom(side_str.val)
                  price == ParseNumber(arr.val[2])
                  size == ParseNumber(arr.val[3])
              IN IF ~order_side.some THEN None
                 ELSE IF ~size.some THEN None
                 ELSE IF ~price.some THEN None
                 ELSE Some([order_side |-> order_side.val,
                            level |-> [size |-> size.val, price |-> price.val]])

\* Iterator::filter_map(f).collect::<Vec<_>>() with f = DiffFromValue
RECURSIVE FilterMapDiffs(_)
FilterMapDiffs(q) ==
    IF q = <<>> THEN <<>>
    ELSE LET d == DiffFromValue(Head(q)) IN
         IF d.some THEN <<d.val>> \o FilterMapDiffs(Tail(q))
         ELSE FilterMapDiffs(Tail(q))

\* Iterator::filter_map(Level::from_value).collect::<Vec<_>>()
RECURSIVE FilterMapLevels(_)
FilterMapLevels(q) ==
    IF q = <<>> THEN <<>>
    ELSE LET l == LevelFromValue(Head(q)) IN
         IF l.some THEN <<l.val>> \o FilterMapLevels(Tail(q))
         ELSE FilterMapLevels(Tail(q))

\* Level2Update::from_value with `changes` collected as Option<Vec<_>>: one
\* element that fails makes the whole decode fail
Level2UpdateFromValueStrict(value) ==
    LET type_ == Get(value, "type")
        product_id == Get(value, "product_id")
        time == Get(value, "time")
        changes == Get(value, "changes")
    IN IF ~type_.some \/ ~AsStr(type_.val).some THEN None
       ELSE IF ~product_id.some \/ ~AsStr(product_id.val).some THEN None
       ELSE IF ~time.some \/ ~AsStr(time.val).some THEN None
       ELSE IF ~ParseTime(AsStr(time.val).val).some THEN None
       ELSE IF ~changes.some \/ ~AsArray(changes.val).some THEN None
       ELSE IF \E i \in 1..Len(AsArray(changes.val).val) :
                    ~DiffFromValue(AsArray(changes.val).val[i]).some THEN None
       ELSE Some([type_ |-> AsStr(type_.val).val,
                  product_id |-> AsStr(product_id.val).val,
                  time |-> ParseTime(AsStr(time.val).val).val,
                  changes |-> FilterMapDiffs(AsArray(changes.val).val)])

\* Level2Update::from_value
Level2UpdateFromValue(value) ==
    LET type_ == Get(value, "type")
        product_id == Get(value, "product_id")
        time == Get(value, "time")
        changes == Get(value, "changes")
    IN IF ~type_.some \/ ~AsStr(type_.val).some THEN None
       ELSE IF ~product_id.some \/ ~AsStr(product_id.val).some THEN None
       ELSE IF ~time.some \/ ~AsStr(time.val).some THEN None
       ELSE IF ~ParseTime(AsStr(time.val).val).some THEN None
       ELSE IF ~changes.some \/ ~AsArray(changes.val).some THEN None
       ELSE Some([type_ |-> AsStr(type_.val).val,
                  product_id |-> AsStr(product_id.val).val,
                  time |-> ParseTime(AsStr(time.val).val).val,
                  changes |-> FilterMapDiffs(AsArray(changes.val).val)])

\* ParseLevels with the levels collected as Option<Vec<_>>: one pair that fails
\* makes the side, and with it the snapshot, fail
ParseLevelsStrict(value) ==
    LET arr == AsArray(value) IN
    IF ~arr.some THEN None
    ELSE IF \E i \in 1..Len(arr.val) : ~LevelFromValue(arr.val[i]).some THEN None
    ELSE Some(FilterMapLevels(arr.val))

\* parse_levels, the helper inside OrderBook::from_value
ParseLevels(value) ==
    LET arr == AsArray(value) IN
    IF ~arr.some THEN None ELSE Some(FilterMapLevels(arr.val))

\* OrderBook::from_value
OrderBookFromValue(value) ==
    LET type_ == Get(value, "type")
        product_id == Get(value, "product_id")
        bids == Get(value, "bids")
        asks == Get(value, "asks")
    IN IF ~type_.some \/ ~AsStr(type_.val).some THEN None
       ELSE IF ~product_id.some \/ ~AsStr(product_id.val).some THEN None
       ELSE IF ~bids.some \/ ~ParseLevels(bids.val).some THEN None
       ELSE IF ~asks.some \/ ~ParseLevels(asks.val).some THEN None
       ELSE Some([type_ |-> AsStr(type_.val).val,
                  product_id |-> AsStr(product_id.val).val,
                  bids |-> ParseLevels(bids.val).val,
                  asks |-> ParseLevels(asks.val).val])

\* OrderBook::default()
DefaultOrderBook == [type_ |-> "", product_id |-> "", bids |-> <<>>, asks |-> <<>>]

(***************************************************************************)
(* model.rs: update_order_book, after the frame has arrived.               *)
(***************************************************************************)
\* the comparator handed to sort_by, as the "a sorts before b" test the sort uses
IsLess(a, b) ==
    LET c == PartialCmp(a.price, b.price) IN
    (IF c.some THEN c.val ELSE "Less") = "Less"

\* insert_tail: the last element moves left past every element it sorts before
RECURSIVE InsertTail(_, _)
InsertTail(v, x) ==
    IF v = <<>> THEN <<x>>
    ELSE IF IsLess(x, v[Len(v)])
         THEN Append(InsertTail(SubSeq(v, 1, Len(v) - 1), x), v[Len(v)])
         ELSE Append(v, x)

\* insertion_sort_shift_left: the insertion sort of the current standard library
RECURSIVE SortShiftLeft(_)
SortShiftLeft(v) ==
    IF v = <<>> THEN <<>>
    ELSE InsertTail(SortShiftLeft(SubSeq(v, 1, Len(v) - 1)), v[Len(v)])

\* insert_head: the first element moves right past every element that sorts before it
RECURSIVE InsertHead(_, _)
InsertHead(x, v) ==
    IF v = <<>> THEN <<x>>
    ELSE IF IsLess(Head(v), x)
         THEN <<Head(v)>> \o InsertHead(x, Tail(v))
         ELSE <<x>> \o v

\* the insertion sort of the standard library of 2022, from the last element back
RECURSIVE SortInsertHead(_)
SortInsertHead(v) ==
    IF v = <<>> THEN <<>>
    ELSE InsertHead(Head(v), SortInsertHead(Tail(v)))

\* slice::sort_by with the comparator above, for the short slices of the model
\* (up to 20 elements are sorted by insertion): the orders the two insertion
\* sorts give. They agree, on the stable ascending order, unless a price is NaN
SortByPrice(v) == {SortShiftLeft(v), SortInsertHead(v)}

\* ApplyChange with each side fed by its own diffs (Buy to bids, Sell to asks)
ApplyChangeSameSide(book, change) ==
    IF F64Eq(change.level.size, 0) THEN book
    ELSE IF change.order_side = "Buy"
         THEN [book EXCEPT !.bids = Append(@, change.level)]
         ELSE [book EXCEPT !.asks = Append(@, change.level)]

\* ApplyChange without the test that skips a diff of size 0
ApplyChangeKeepsZero(book, change) ==
    IF change.order_side = "Buy"
    THEN [book EXCEPT !.asks = Append(@, change.level)]
    ELSE [book EXCEPT !.bids = Append(@, change.level)]

\* ApplyChange with the levels keyed by price: a diff replaces the levels of its
\* price, and removes them when its size is 0
ApplyChangeReplaces(book, change) ==
    LET Other(l) == l.price # change.level.price
        Put(v) == IF F64Eq(change.level.size, 0) THEN SelectSeq(v, Other)
                  ELSE Append(SelectSeq(v, Other), change.level)
    IN IF change.order_side = "Buy"
       THEN [book EXCEPT !.asks = Put(@)]
       ELSE [book EXCEPT !.bids = Put(@)]

\* the body of the loop over l2update.changes, for one change
ApplyChange(book, change) ==
    IF F64Eq(change.level.size, 0) THEN book
    ELSE IF change.order_side = "Buy"
         THEN [book EXCEPT !.asks = Append(@, change.level)]
         ELSE [book EXCEPT !.bids = Append(@, change.level)]

\* the loop over l2update.changes
RECURSIVE ApplyChanges(_, _)
ApplyChanges(book, changes) ==
    IF changes = <<>> THEN book
    ELSE ApplyChanges(ApplyChange(book, Head(changes)), Tail(changes))

\* SortBook without the second sort_by call
SortBookAsksOnly(book) ==
    {[book EXCEPT !.asks = a] : a \in SortByPrice(book.asks)}

\* the two sort_by calls that end update_order_book: the books they can leave
SortBook(book) ==
    {[book EXCEPT !.asks = a, !.bids = b] :
        a \in SortByPrice(book.asks), b \in SortByPrice(book.bids)}

\* ApplyFrame with a snapshot's levels pushed onto the book instead of replacing it
ApplyFrameMergesSnapshot(book, value) ==
    LET l2update == Level2UpdateFromValue(value)
        new_snapshot == OrderBookFromValue(value)
    IN IF l2update.some THEN SortBook(ApplyChanges(book, l2update.val.changes))
       ELSE IF new_snapshot.some
            THEN SortBook([new_snapshot.val EXCEPT !.bids = book.bids \o @,
                                                   !.asks = book.asks \o @])
       ELSE {book}

\* ApplyFrame without the early return: a frame neither decoder accepts falls
\* through to the two sorts
ApplyFrameSortsAlways(book, value) ==
    LET l2update == Level2UpdateFromValue(value)
        new_snapshot == OrderBookFromValue(value)
    IN IF l2update.some THEN SortBook(ApplyChanges(book, l2update.val.changes))
       ELSE IF new_snapshot.some THEN SortBook(new_snapshot.val)
       ELSE SortBook(book)

\* ApplyFrame with the two decodes tried in the other order
ApplyFrameSnapshotFirst(book, value) ==
    LET l2update == Level2UpdateFromValue(value)
        new_snapshot == OrderBookFromValue(value)
    IN IF new_snapshot.some THEN SortBook(new_snapshot.val)
       ELSE IF l2update.some THEN SortBook(ApplyChanges(book, l2update.val.changes))
       ELSE {book}

\* ApplyFrame with the return moved up to the end of the snapshot branch: only
\* an Update is followed by the two sorts
ApplyFrameSnapshotUnsorted(book, value) ==
    LET l2update == Level2UpdateFromValue(value)
        new_snapshot == OrderBookFromValue(value)
    IN IF l2update.some THEN SortBook(ApplyChanges(book, l2update.val.changes))
       ELSE IF new_snapshot.some THEN {new_snapshot.val}
       ELSE {book}

\* ApplyFrame with an Update of another product than the book's left out
ApplyFrameChecksProduct(book, value) ==
    LET l2update == Level2UpdateFromValue(value)
        new_snapshot == OrderBookFromValue(value)
    IN IF l2update.some
       THEN IF l2update.val.product_id = book.product_id
            THEN SortBook(ApplyChanges(book, l2update.val.changes))
            ELSE {book}
       ELSE IF new_snapshot.some THEN SortBook(new_snapshot.val)
       ELSE {book}

\* update_order_book from the decode of the frame to its return: the books it can leave
ApplyFrame(book, value) ==
    LET l2update == Level2UpdateFromValue(value)
        new_snapshot == OrderBookFromValue(value)
    IN IF l2update.some THEN SortBook(ApplyChanges(book, l2update.val.changes))
       ELSE IF new_snapshot.some THEN SortBook(new_snapshot.val)
       ELSE {book}

(***************************************************************************)
(* The frames the feed delivers.                                           *)
(***************************************************************************)
ProductIds == {"BTC-USD", "ETH-USD"}
TimeToken == "2022-08-04T15:25:05.010758Z"

SeqsUpTo(S, n) == UNION {[1..m -> S] : m \in 0..n}

\* pairs of sequences over S of at most n elements together
SeqPairsUpTo(S, n) ==
    UNION {[1..ij[1] -> S] \X [1..ij[2] -> S] :
            ij \in {p \in (0..n) \X (0..n) : p[1] + p[2] <= n}}

\* elements of a `changes` array: triples that decode (one of them with size
\* zero, one with a NaN price) and one that does not
GoodChanges ==
    {Arr(<<Str(s), Str(p), Str("1")>>) : s \in {"buy", "sell"}, p \in {"1", "2"}}
    \cup {Arr(<<Str("buy"), Str("1"), Str("0.00000000")>>),
          Arr(<<Str("sell"), Str("NaN"), Str("1")>>)}
BadChanges == {Arr(<<Str("hold"), Str("1"), Str("1")>>)}
ChangeArrays == SeqsUpTo(GoodChanges \cup BadChanges, MaxChanges)

\* elements of a `bids` or `asks` array
GoodPairs == {Arr(<<Str("1"), Str("1")>>), Arr(<<Str("2"), Str("1")>>), Arr(<<Str("1.0"), Str("2")>>)}
BadPairs == <<Arr(<<Str("1"), Num("1")>>)>>
SidePairs == SeqPairsUpTo(GoodPairs, MaxLevels)

\* l2update frames of the product the book was subscribed for, and the ones of at
\* most one change of the other product
UpdateFrames ==
    {Obj(Str("l2update"), Str("BTC-USD"), Str(TimeToken), Arr(c), Absent, Absent) :
        c \in ChangeArrays}
    \cup {Obj(Str("l2update"), Str("ETH-USD"), Str(TimeToken), Arr(c), Absent, Absent) :
            c \in SeqsUpTo(GoodChanges, 1)}
\* snapshot frames whose pairs all decode, and two with a pair that does not
SnapshotFrames ==
    {Obj(Str("snapshot"), Str("BTC-USD"), Absent, Absent, Arr(bs[1]), Arr(bs[2])) :
        bs \in SidePairs}
    \cup {Obj(Str("snapshot"), Str("BTC-USD"), Absent, Absent, Arr(bs[1]), Arr(bs[2])) :
            bs \in {<<BadPairs, <<Arr(<<Str("2"), Str("1")>>)>> >>,
                    << <<Arr(<<Str("1"), Str("1")>>)>>, BadPairs>>}}
\* frames that carry the fields of both messages
BothFrames ==
    {Obj(Str("l2update"), Str("ETH-USD"), Str(TimeToken), Arr(c), Arr(<<b>>), Arr(<<>>)) :
        c \in SeqsUpTo({Arr(<<Str("buy"), Str("2"), Str("1")>>)}, 1),
        b \in {Arr(<<Str("1"), Str("1")>>)}}
\* the frames above with one field missing or of another JSON type, and a scalar
BrokenFrames ==
    {[f EXCEPT !.v[key] = bad] :
        f \in {Obj(Str("l2update"), Str("ETH-USD"), Str(TimeToken),
                   Arr(<<Arr(<<Str("sell"), Str("1"), Str("1")>>)>>), Absent, Absent),
               Obj(Str("snapshot"), Str("ETH-USD"), Absent, Absent,
                   Arr(<<Arr(<<Str("2"), Str("1")>>)>>), Arr(<<>>)),
               Obj(Str("l2update"), Str("ETH-USD"), Str(TimeToken),
                   Arr(<<Arr(<<Str("sell"), Str("1"), Str("1")>>)>>),
                   Arr(<<Arr(<<Str("2"), Str("1")>>)>>), Arr(<<>>))},
        key \in {"type", "product_id", "time", "changes", "bids", "asks"},
        bad \in {Absent, Num("7"), Str("tomorrow")}}
    \cup {Num("7")}
Frames == UpdateFrames \cup SnapshotFrames \cup BothFrames \cup BrokenFrames

\* frames that set the row count: snapshots of every shape, updates of one change,
\* and a frame neither decoder accepts
TuiFrames ==
    {Obj(Str("snapshot"), Str("BTC-USD"), Absent, Absent, Arr(bs[1]), Arr(bs[2])) :
        bs \in {p \in SidePairs :
                    /\ \A i \in 1..Len(p[1]) : p[1][i] = Arr(<<Str("1"), Str("1")>>)
                    /\ \A j \in 1..Len(p[2]) : p[2][j] = Arr(<<Str("2"), Str("1")>>)}}
    \cup {Obj(Str("l2update"), Str("BTC-USD"), Str(TimeToken), Arr(<<c>>), Absent, Absent) :
            c \in {Arr(<<Str("buy"), Str("2"), Str("1")>>),
                   Arr(<<Str("sell"), Str("1"), Str("1")>>)}}
    \cup {Num("7")}

\* frames for the decoders: arrays that mix elements that decode with elements
\* that fail each sub-parse
DecodeChanges ==
    {Arr(<<Str("buy"), Str("1.0"), Str("0.00000000")>>),
     Arr(<<Str("sell"), Str("2"), Str("1")>>),
     Arr(<<Str("buy"), Str("NaN"), Str("2")>>),
     Arr(<<Str("buy"), Str("1")>>),
     Arr(<<Str("buy"), Str("1"), Str("1"), Str("1")>>),
     Arr(<<Str("hold"), Str("1"), Str("1")>>),
     Arr(<<Num("1"), Str("1"), Str("1")>>),
     Arr(<<Str("sell"), Str("x"), Str("1")>>),
     Arr(<<Str("sell"), Num("2"), Str("1")>>),
     Arr(<<Str("sell"), Str("2"), Str("")>>),
     Str("buy")}
DecodePairs ==
    {Arr(<<Str("1.0"), Str("0.00000000")>>),
     Arr(<<Str("2"), Str("1")>>),
     Arr(<<Str("NaN"), Str("2")>>),
     Arr(<<Str("1")>>),
     Arr(<<Str("1"), Str("1"), Str("1")>>),
     Arr(<<Str("x"), Str("1")>>),
     Arr(<<Str("2"), Num("1")>>),
     Str("1")}
\* the longest arrays mix two triples that decode with one element that does not
DecodeChangesLong ==
    {Arr(<<Str("buy"), Str("1.0"), Str("0.00000000")>>),
     Arr(<<Str("sell"), Str("2"), Str("1")>>),
     Arr(<<Str("hold"), Str("1"), Str("1")>>)}
DecodeFrames ==
    {Obj(Str("l2update"), Str(p), Str(TimeToken), Arr(c), Absent, Absent) :
        p \in ProductIds,
        c \in SeqsUpTo(DecodeChanges, MaxChanges) \cup SeqsUpTo(DecodeChangesLong, MaxChanges + 1)}
    \cup {Obj(Str("snapshot"), Str(p), Absent, Absent, Arr(bs[1]), Arr(bs[2])) :
            p \in ProductIds, bs \in SeqPairsUpTo(DecodePairs, MaxLevels)}
    \cup BrokenFrames

(***************************************************************************)
(* tui.rs: the cursor.                                                     *)
(***************************************************************************)
\* usize::MAX, the value `size - 1` wraps to when size is 0 and overflow checks
\* are off (the largest integer of the model stands for it)
UsizeMax == 2147483647

Max(a, b) == IF a >= b THEN a ELSE b

\* the row count both navigation operations compute
RowCount(book) == Max(Len(book.bids), Len(book.asks))

\* the results of `size - 1` on usize: a panic when overflow checks are on and
\* the wrapped value when they are off, for size 0
SizeMinusOne(size) ==
    IF size = 0 THEN {[panic |-> TRUE, val |-> 0], [panic |-> FALSE, val |-> UsizeMax]}
    ELSE {[panic |-> FALSE, val |-> size - 1]}

\* AppNext without the wrap to the first row: the selection always moves on by one
AppNextNoWrap(sel, book) ==
    IF ~sel.some THEN {[panic |-> FALSE, sel |-> Some(0)]}
    ELSE {[panic |-> FALSE, sel |-> Some(sel.val + 1)]}

\* App::next: the outcomes for a selection and a book
AppNext(sel, book) ==
    IF ~sel.some THEN {[panic |-> FALSE, sel |-> Some(0)]}
    ELSE {IF d.panic THEN [panic |-> TRUE, sel |-> sel]
          ELSE [panic |-> FALSE, sel |-> Some(IF sel.val >= d.val THEN 0 ELSE sel.val + 1)] :
            d \in SizeMinusOne(RowCount(book))}

\* App::previous: the outcomes for a selection and a book
AppPrevious(sel, book) ==
    IF ~sel.some THEN {[panic |-> FALSE, sel |-> Some(0)]}
    ELSE IF sel.val # 0 THEN {[panic |-> FALSE, sel |-> Some(sel.val - 1)]}
    ELSE {IF d.panic THEN [panic |-> TRUE, sel |-> sel]
          ELSE [panic |-> FALSE, sel |-> Some(d.val)] :
            d \in SizeMinusOne(RowCount(book))}

(***************************************************************************)
(* main.rs: the process.                                                   *)
(***************************************************************************)
VARIABLES
    pc,          \* where main is: next_frame, apply, update_frame, teardown, close, or an exit
    order_book,  \* app.order_book
    selected,    \* app.state.selected()
    frame,       \* the Value next_frame returned, until update_order_book has consumed it
    terminal,    \* "setup" after tui::setup, "restored" after tui::teardown
    closed,      \* whether Client::close has been called
    cause        \* what made main return an error

vars == <<pc, order_book, selected, frame, terminal, closed, cause>>

NoFrame == Absent

\* main after Client::subscribe, App::new and tui::setup have succeeded
Init ==
    /\ pc = "next_frame"
    /\ order_book = DefaultOrderBook
    /\ selected = None
    /\ frame = NoFrame
    /\ terminal = "setup"
    /\ closed = FALSE
    /\ cause = "none"

\* levels of a book, both sides together
BookSize(book) == Len(book.bids) + Len(book.asks)

\* levels the book holds once update_order_book has applied the value
BookSizeAfter(book, value) ==
    LET l2update == Level2UpdateFromValue(value) IN
    IF l2update.some THEN BookSize(ApplyChanges(book, l2update.val.changes))
    ELSE LET new_snapshot == OrderBookFromValue(value) IN
         IF new_snapshot.some THEN BookSize(new_snapshot.val) ELSE BookSize(book)

\* Client::next_frame returns a JSON value, one of `frames`
NextFrameFrom(frames) ==
    /\ pc = "next_frame"
    /\ \E f \in frames :
        /\ BookSizeAfter(order_book, f) <= MaxBook
        /\ frame' = f
    /\ pc' = "apply"
    /\ UNCHANGED <<order_book, selected, terminal, closed, cause>>

\* Client::next_frame fails and `?` returns the error from update_order_book and
\* from main: the receive failed, the frame is no text frame, or its payload is
\* no JSON document
NextFrameFails ==
    /\ pc = "next_frame"
    /\ \E c \in {"receive", "not_text", "not_json"} : cause' = c
    /\ pc' = "exit_err"
    /\ UNCHANGED <<order_book, selected, frame, terminal, closed>>

\* UpdateOrderBook with a frame neither decoder accepts returned as an error
UpdateOrderBookRejects ==
    /\ pc = "apply"
    /\ order_book' \in ApplyFrame(order_book, frame)
    /\ frame' = NoFrame
    /\ IF Level2UpdateFromValue(frame).some \/ OrderBookFromValue(frame).some
       THEN pc' = "update_frame" /\ UNCHANGED cause
       ELSE pc' = "exit_err" /\ cause' = "decode"
    /\ UNCHANGED <<selected, terminal, closed>>

\* UpdateOrderBook with an Update left out while no Snapshot has been applied
UpdateOrderBookDefers ==
    /\ pc = "apply"
    /\ IF order_book.type_ = "" /\ Level2UpdateFromValue(frame).some
       THEN order_book' = order_book
       ELSE order_book' \in ApplyFrame(order_book, frame)
    /\ frame' = NoFrame
    /\ pc' = "update_frame"
    /\ UNCHANGED <<selected, terminal, closed, cause>>

\* update_order_book once the frame is there
UpdateOrderBook ==
    /\ pc = "apply"
    /\ order_book' \in ApplyFrame(order_book, frame)
    /\ frame' = NoFrame
    /\ pc' = "update_frame"
    /\ UNCHANGED <<selected, terminal, closed, cause>>

NavigationKeys == {"Down", "j", "Up", "k"}
OtherKeys == {"none", "q", "other"}

\* the match on the key code in update_frame: where main goes next and the selection
HandleKey(key, sel, book) ==
    CASE key = "q" -> {[pc |-> "teardown", sel |-> sel]}
      [] key \in {"Down", "j"} ->
            {[pc |-> IF r.panic THEN "panicked" ELSE "next_frame", sel |-> r.sel] :
                r \in AppNext(sel, book)}
      [] key \in {"Up", "k"} ->
            {[pc |-> IF r.panic THEN "panicked" ELSE "next_frame", sel |-> r.sel] :
                r \in AppPrevious(sel, book)}
      [] OTHER -> {[pc |-> "next_frame", sel |-> sel]}

\* the selections the model follows: the row indexes a book can have, and usize::MAX
SelectionFollowed(sel) ==
    IF sel.some THEN sel.val \in (0..MaxBook) \cup {UsizeMax} ELSE TRUE

\* UpdateFrameWith with the book taken out of the App when the user quits
UpdateFrameWithTakesBook(keys) ==
    /\ pc = "update_frame"
    /\ \E key \in keys :
        \E r \in HandleKey(key, selected, order_book) :
            /\ SelectionFollowed(r.sel)
            /\ selected' = r.sel
            /\ pc' = r.pc
            /\ order_book' = IF key = "q" THEN DefaultOrderBook ELSE order_book
    /\ UNCHANGED <<frame, terminal, closed, cause>>

\* UpdateFrameWith with the render pass also run while main awaits the next frame
UpdateFrameWithWhileAwaiting(keys) ==
    /\ pc \in {"update_frame", "next_frame"}
    /\ \E key \in keys :
        \E r \in HandleKey(key, selected, order_book) :
            /\ SelectionFollowed(r.sel)
            /\ selected' = r.sel
            /\ pc' = r.pc
    /\ UNCHANGED <<order_book, frame, terminal, closed, cause>>

\* tui::update_frame returns Ok: the draw, then the key if there is one, among `keys`
UpdateFrameWith(keys) ==
    /\ pc = "update_frame"
    /\ \E key \in keys :
        \E r \in HandleKey(key, selected, order_book) :
            /\ SelectionFollowed(r.sel)
            /\ selected' = r.sel
            /\ pc' = r.pc
    /\ UNCHANGED <<order_book, frame, terminal, closed, cause>>

\* tui::update_frame returns an error (the draw, the poll or the read failed)
\* and `?` returns it from main
UpdateFrameFails ==
    /\ pc = "update_frame"
    /\ pc' = "exit_err"
    /\ cause' = "update_frame"
    /\ UNCHANGED <<order_book, selected, frame, terminal, closed>>

\* tui::teardown
Teardown ==
    /\ pc = "teardown"
    /\ terminal' = "restored"
    /\ pc' = "close"
    /\ UNCHANGED <<order_book, selected, frame, closed, cause>>

\* tui::teardown fails and `?` returns the error from main
TeardownFails ==
    /\ pc = "teardown"
    /\ pc' = "exit_err"
    /\ cause' = "teardown"
    /\ UNCHANGED <<order_book, selected, frame, terminal, closed>>

\* Client::close, then main returns Ok, or the error of the close
Close ==
    /\ pc = "close"
    /\ closed' = TRUE
    /\ \/ pc' = "exit_ok" /\ UNCHANGED cause
       \/ pc' = "exit_err" /\ cause' = "close"
    /\ UNCHANGED <<order_book, selected, frame, terminal>>

\* The feed in full, the user watching or quitting.
NextFrame == NextFrameFrom(Frames)
UpdateFrame == UpdateFrameWith(OtherKeys)

Next ==
    \/ NextFrame
    \/ NextFrameFails
    \/ UpdateOrderBook
    \/ UpdateFrame
    \/ UpdateFrameFails
    \/ Teardown
    \/ TeardownFails
    \/ Close

Spec == Init /\ [][Next]_vars

\* The decoders on their own: main when next_frame has returned its first value,
\* one whose elements fail the decoders in every way, and update_order_book
\* decodes and applies it.
InitDecode ==
    /\ pc = "apply"
    /\ order_book = DefaultOrderBook
    /\ selected = None
    /\ frame \in DecodeFrames
    /\ terminal = "setup"
    /\ closed = FALSE
    /\ cause = "none"

NextDecode == UpdateOrderBook

SpecDecode == InitDecode /\ [][NextDecode]_vars

\* The user navigating, the feed delivering frames that differ in their row counts.
NextFrameTui == NextFrameFrom(TuiFrames)
UpdateFrameTui == UpdateFrameWith(NavigationKeys \cup OtherKeys)

NextTui ==
    \/ NextFrameTui
    \/ NextFrameFails
    \/ UpdateOrderBook
    \/ UpdateFrameTui
    \/ UpdateFrameFails
    \/ Teardown
    \/ TeardownFails
    \/ Close

SpecTui == Init /\ [][NextTui]_vars

(***************************************************************************)
(* Properties.                                                             *)
(***************************************************************************)
\* no price of the levels is NaN: the prices compare with each other
Comparable(v) == \A i \in 1..Len(v) : v[i].price # NaN

\* prices never go down from one level to the next
NonDecreasing(v) == \A i \in 1..(Len(v) - 1) : v[i].price <= v[i + 1].price

\* how often a level occurs in a sequence of levels
Count(v, l) == Cardinality({i \in 1..Len(v) : v[i] = l})

\* the same levels with the same multiplicities
SameLevels(v, w) ==
    /\ Len(v) = Len(w)
    /\ \A i \in 1..Len(v) : Count(v, v[i]) = Count(w, v[i])

\* every level of v is in w at least as often
KeepsLevels(v, w) == \A i \in 1..Len(v) : Count(w, v[i]) >= Count(v, v[i])

\* the levels of the diffs of one side whose size is not zero, in order
RECURSIVE LevelsOf(_, _)
LevelsOf(changes, side) ==
    IF changes = <<>> THEN <<>>
    ELSE IF Head(changes).order_side = side /\ Head(changes).level.size # 0
         THEN <<Head(changes).level>> \o LevelsOf(Tail(changes), side)
         ELSE LevelsOf(Tail(changes), side)

DecodesAsUpdate(value) == Level2UpdateFromValue(value).some
DecodesAsSnapshot(value) == ~Level2UpdateFromValue(value).some /\ OrderBookFromValue(value).some

\* C1: in every state, a side of the book whose prices compare with each other
\* is non-decreasing by price.
C1_SortInvariant ==
    /\ Comparable(order_book.bids) => NonDecreasing(order_book.bids)
    /\ Comparable(order_book.asks) => NonDecreasing(order_book.asks)

\* update_order_book has returned with two bids of different prices in the book
C1_Witness ==
    /\ pc = "update_frame"
    /\ Len(order_book.bids) >= 2
    /\ Comparable(order_book.bids)
    /\ order_book.bids[1].price < order_book.bids[2].price
    /\ order_book.asks # <<>>

\* C2: a step that applies a frame which decodes as a Snapshot and not as an
\* Update leaves the snapshot's product_id and exactly the snapshot's decoded
\* levels, with their multiplicities, on each side.
C2_SnapshotReplaces ==
    [][(pc = "apply" /\ DecodesAsSnapshot(frame)) =>
        LET snap == OrderBookFromValue(frame).val IN
        /\ order_book'.product_id = snap.product_id
        /\ SameLevels(order_book'.bids, snap.bids)
        /\ SameLevels(order_book'.asks, snap.asks)]_vars

\* a snapshot is about to replace a book of another product that holds a level
\* the snapshot does not have
C2_Witness ==
    /\ pc = "apply"
    /\ DecodesAsSnapshot(frame)
    /\ order_book.product_id \notin {"", OrderBookFromValue(frame).val.product_id}
    /\ \E i \in 1..Len(order_book.bids) :
        Count(OrderBookFromValue(frame).val.bids, order_book.bids[i]) = 0

\* C3: a step that applies an Update leaves in asks the previous asks plus
\* exactly the levels of its non-zero Buy diffs, and in bids the previous bids
\* plus exactly the levels of its non-zero Sell diffs.
C3_UpdateAppends ==
    [][(pc = "apply" /\ DecodesAsUpdate(frame)) =>
        LET changes == Level2UpdateFromValue(frame).val.changes IN
        /\ SameLevels(order_book'.asks, order_book.asks \o LevelsOf(changes, "Buy"))
        /\ SameLevels(order_book'.bids, order_book.bids \o LevelsOf(changes, "Sell"))]_vars

\* an Update with a Buy diff of size zero and a Sell diff of another size is
\* about to be applied to a book with levels on both sides
C3_Witness ==
    /\ pc = "apply"
    /\ DecodesAsUpdate(frame)
    /\ LET changes == Level2UpdateFromValue(frame).val.changes IN
        /\ \E i \in 1..Len(changes) :
            changes[i].order_side = "Buy" /\ changes[i].level.size = 0
        /\ LevelsOf(changes, "Sell") # <<>>
    /\ order_book.bids # <<>>
    /\ order_book.asks # <<>>

\* an Update all of whose diffs have size 0
ZeroUpdate(value) ==
    /\ DecodesAsUpdate(value)
    /\ \A i \in 1..Len(Level2UpdateFromValue(value).val.changes) :
        Level2UpdateFromValue(value).val.changes[i].level.size = 0

\* the step leaves both sides of the book as they were, and applying the frame
\* again to the book it leaves changes neither side
ZeroUpdateIsNoOp ==
    /\ order_book'.bids = order_book.bids
    /\ order_book'.asks = order_book.asks
    /\ \A twice \in ApplyFrame(order_book', frame) :
        twice.bids = order_book'.bids /\ twice.asks = order_book'.asks

\* C4 as stated: in every reachable book, a step that applies an Update whose
\* diffs all have size 0 leaves bids and asks unchanged as sequences, twice as once.
C4_Original ==
    [][(pc = "apply" /\ ZeroUpdate(frame)) => ZeroUpdateIsNoOp]_vars

\* C4, amended: in every reachable book whose prices compare with each other
\* (no NaN price), a step that applies an Update whose diffs all have size 0
\* leaves bids and asks unchanged as sequences, and applying it twice is the
\* same as applying it once.
C4_ZeroUpdateNoOp ==
    [][(pc = "apply" /\ ZeroUpdate(frame)
            /\ Comparable(order_book.bids) /\ Comparable(order_book.asks))
        => ZeroUpdateIsNoOp]_vars

\* an Update of one diff of size zero is about to be applied to a book that
\* holds two bids and an ask, all prices comparable
C4_Witness ==
    /\ pc = "apply"
    /\ ZeroUpdate(frame)
    /\ Level2UpdateFromValue(frame).val.changes # <<>>
    /\ Len(order_book.bids) >= 2
    /\ order_book.asks # <<>>
    /\ Comparable(order_book.bids) /\ Comparable(order_book.asks)

\* C5: a step that applies a frame neither decoder accepts leaves the book as
\* it was, and update_order_book returns Ok: main goes on to the render pass.
C5_UndecodableDropped ==
    [][(pc = "apply" /\ ~DecodesAsUpdate(frame) /\ ~OrderBookFromValue(frame).some) =>
        /\ order_book' = order_book
        /\ pc' = "update_frame"
        /\ cause' = "none"]_vars

\* a JSON object without the `type` field is about to be applied to a book
\* that holds levels
C5_Witness ==
    /\ pc = "apply"
    /\ frame.k = "obj"
    /\ frame.v.type = Absent
    /\ frame.v.bids # Absent
    /\ order_book.bids # <<>>
    /\ order_book.product_id # ""

\* C6: a step that applies a frame both decoders accept applies it as an
\* Update: the book keeps its product_id and every level it had.
C6_UpdateFirst ==
    [][(pc = "apply" /\ DecodesAsUpdate(frame) /\ OrderBookFromValue(frame).some) =>
        /\ order_book'.product_id = order_book.product_id
        /\ order_book'.type_ = order_book.type_
        /\ KeepsLevels(order_book.bids, order_book'.bids)
        /\ KeepsLevels(order_book.asks, order_book'.asks)]_vars

\* a frame with the fields of both messages is about to be applied to a book
\* of another product, with a level that the frame's bids and asks do not have
C6_Witness ==
    /\ pc = "apply"
    /\ DecodesAsUpdate(frame)
    /\ OrderBookFromValue(frame).some
    /\ order_book.product_id \notin {"", OrderBookFromValue(frame).val.product_id}
    /\ \E i \in 1..Len(order_book.asks) :
        Count(OrderBookFromValue(frame).val.asks, order_book.asks[i]) = 0

\* the errors Client::next_frame returns
NextFrameErrors == {"receive", "not_text", "not_json"}

\* C7 as stated: update_order_book returns an error only when the feed fails
\* to deliver a frame (the receive itself fails on a broken connection).
C7_Original ==
    (pc = "exit_err" /\ cause \in NextFrameErrors) => cause = "receive"

\* C7, amended: update_order_book returns an error only when Client::next_frame
\* returns one (the receive fails, the frame received is no text frame, or its
\* payload is no JSON document); once next_frame has returned a JSON value,
\* whatever its content, update_order_book returns Ok and main goes on to the
\* render pass.
C7_ErrorsOnlyFromNextFrame ==
    [][/\ (pc \in {"next_frame", "apply"} /\ pc' = "exit_err") =>
            (pc = "next_frame" /\ frame = NoFrame /\ cause' \in NextFrameErrors)
       /\ pc = "apply" => (pc' = "update_frame" /\ cause' = "none")]_vars

\* next_frame has returned a JSON value that is not even an object
C7_Witness ==
    /\ pc = "apply"
    /\ frame.k = "num"
    /\ order_book.asks # <<>>

\* C8: whenever main has returned, Client::close has been called.
C8_CloseBeforeExit ==
    pc \in {"exit_ok", "exit_err"} => closed

\* C9: whenever main has returned the error of a failed frame receipt, the
\* terminal has been restored.
C9_RestoredBeforeError ==
    (pc = "exit_err" /\ cause \in NextFrameErrors) => terminal = "restored"

\* the texts str::parse::<f64> accepts, among those the frames carry
NumberTexts == {"0.00000000", "1", "1.0", "2", "NaN"}

\* a JSON string whose text is a number
IsNumberToken(t) == t.k = "str" /\ t.v \in NumberTexts

\* the envelope of an Update: type and product_id are strings, time is a
\* timestamp, changes is an array
UpdateEnvelope(value) ==
    /\ value.k = "obj"
    /\ value.v.type.k = "str"
    /\ value.v.product_id.k = "str"
    /\ value.v.time = Str(TimeToken)
    /\ value.v.changes.k = "arr"

\* a change triple: [side, price, size] with side "buy" or "sell"
WellFormedChange(e) ==
    /\ e.k = "arr"
    /\ Len(e.v) = 3
    /\ e.v[1] \in {Str("buy"), Str("sell")}
    /\ IsNumberToken(e.v[2])
    /\ IsNumberToken(e.v[3])

\* the diff a well-formed change stands for
DiffOf(e) ==
    [order_side |-> IF e.v[1] = Str("buy") THEN "Buy" ELSE "Sell",
     level |-> [size |-> ParseF64(e.v[3].v).val, price |-> ParseF64(e.v[2].v).val]]

\* one diff per well-formed change, in the order of the array
RECURSIVE DiffsOf(_)
DiffsOf(q) ==
    IF q = <<>> THEN <<>>
    ELSE IF WellFormedChange(Head(q)) THEN <<DiffOf(Head(q))>> \o DiffsOf(Tail(q))
    ELSE DiffsOf(Tail(q))

\* C10: a value whose Update envelope parses decodes as an Update with the
\* product_id of the value and exactly one diff per well-formed change triple,
\* in the order of the changes array, whatever else the array holds.
C10_UpdateDecode ==
    (pc = "apply" /\ UpdateEnvelope(frame)) =>
        LET l2update == Level2UpdateFromValue(frame) IN
        /\ l2update.some
        /\ l2update.val.product_id = frame.v.product_id.v
        /\ l2update.val.changes = DiffsOf(frame.v.changes.v)

\* an Update whose changes are a well-formed triple, a malformed element and
\* another well-formed triple is about to be decoded
C10_Witness ==
    /\ pc = "apply"
    /\ UpdateEnvelope(frame)
    /\ Len(frame.v.changes.v) = 3
    /\ WellFormedChange(frame.v.changes.v[1])
    /\ ~WellFormedChange(frame.v.changes.v[2])
    /\ WellFormedChange(frame.v.changes.v[3])
    /\ frame.v.changes.v[1] # frame.v.changes.v[3]
    /\ Len(Level2UpdateFromValue(frame).val.changes) = 2

\* the envelope of a Snapshot: type and product_id are strings, bids and asks
\* are arrays
SnapshotEnvelope(value) ==
    /\ value.k = "obj"
    /\ value.v.type.k = "str"
    /\ value.v.product_id.k = "str"
    /\ value.v.bids.k = "arr"
    /\ value.v.asks.k = "arr"

\* a [price, size] pair of two number tokens
WellFormedPair(e) ==
    /\ e.k = "arr"
    /\ Len(e.v) = 2
    /\ IsNumberToken(e.v[1])
    /\ IsNumberToken(e.v[2])

\* the level a well-formed pair stands for
PairLevel(e) == [size |-> ParseF64(e.v[2].v).val, price |-> ParseF64(e.v[1].v).val]

\* one level per well-formed pair, in the order of the array
RECURSIVE PairLevels(_)
PairLevels(q) ==
    IF q = <<>> THEN <<>>
    ELSE IF WellFormedPair(Head(q)) THEN <<PairLevel(Head(q))>> \o PairLevels(Tail(q))
    ELSE PairLevels(Tail(q))

\* C11: a value whose Snapshot envelope parses decodes as a Snapshot with the
\* product_id of the value and, on each side, exactly one level per well-formed
\* [price, size] pair, in the order of the array, whatever else the array holds.
C11_SnapshotDecode ==
    (pc = "apply" /\ SnapshotEnvelope(frame)) =>
        LET snapshot == OrderBookFromValue(frame) IN
        /\ snapshot.some
        /\ snapshot.val.product_id = frame.v.product_id.v
        /\ snapshot.val.bids = PairLevels(frame.v.bids.v)
        /\ snapshot.val.asks = PairLevels(frame.v.asks.v)

\* a Snapshot whose bids are a malformed element and a well-formed pair, and
\* whose asks hold nothing that decodes, is about to be decoded
C11_Witness ==
    /\ pc = "apply"
    /\ SnapshotEnvelope(frame)
    /\ Len(frame.v.bids.v) = 2
    /\ ~WellFormedPair(frame.v.bids.v[1])
    /\ WellFormedPair(frame.v.bids.v[2])
    /\ OrderBookFromValue(frame).val.bids = <<PairLevel(frame.v.bids.v[2])>>
    /\ frame.v.asks.v = <<>>

\* C12: a step of update_frame that changes the selection leaves a selection
\* that is a row index of the book: smaller than the row count.
C12_SelectionInRange ==
    [][(pc = "update_frame" /\ selected' # selected) =>
        (selected'.some /\ selected'.val < RowCount(order_book'))]_vars

\* C13: in a state where update_frame is about to run with N >= 1 rows and a
\* selection i < N, App::next gives (i + 1) mod N and App::previous gives
\* (i - 1) mod N, neither panics, each undoes the other, and the step
\* update_frame takes leaves one of these selections or the one it found.
C13_WrapModulo ==
    [][(pc = "update_frame" /\ selected.some
            /\ RowCount(order_book) >= 1 /\ selected.val < RowCount(order_book)) =>
        LET N == RowCount(order_book)
            i == selected.val
            up == Some((i + 1) % N)
            down == Some((i - 1) % N)
        IN /\ AppNext(selected, order_book) = {[panic |-> FALSE, sel |-> up]}
           /\ AppPrevious(selected, order_book) = {[panic |-> FALSE, sel |-> down]}
           /\ AppPrevious(up, order_book) = {[panic |-> FALSE, sel |-> selected]}
           /\ AppNext(down, order_book) = {[panic |-> FALSE, sel |-> selected]}
           /\ selected' \in {selected, up, down}
           /\ pc' # "panicked"]_vars

\* update_frame is about to run with the last of at least two rows selected:
\* the user has navigated there, and App::next wraps from it
C13_Witness ==
    /\ pc = "update_frame"
    /\ selected.some
    /\ RowCount(order_book) >= 2
    /\ selected.val = RowCount(order_book) - 1

\* C14: a step of update_frame, whatever the key, leaves the book as it was.
C14_RenderKeepsBook ==
    [][pc = "update_frame" => order_book' = order_book]_vars

\* the user has quit, after navigating, with levels on both sides of the book
C14_Witness ==
    /\ pc = "teardown"
    /\ selected.some
    /\ selected.val >= 1
    /\ order_book.bids # <<>>
    /\ order_book.asks # <<>>

\* the levels of a price, in their order
AtPrice(v, p) == LET Has(l) == l.price = p IN SelectSeq(v, Has)

\* sorted holds the levels of orig in ascending order of price, levels of one
\* price in the order they have in orig
StableAscending(sorted, orig) ==
    /\ SameLevels(sorted, orig)
    /\ NonDecreasing(sorted)
    /\ \A i \in 1..Len(orig) : AtPrice(sorted, orig[i].price) = AtPrice(orig, orig[i].price)

\* C15 as stated: a step that applies a Snapshot leaves in bids and asks the
\* decoded levels in the order of the snapshot's arrays.
C15_Original ==
    [][(pc = "apply" /\ DecodesAsSnapshot(frame)) =>
        LET snap == OrderBookFromValue(frame).val IN
        /\ order_book'.bids = snap.bids
        /\ order_book'.asks = snap.asks]_vars

\* C15, amended: a step that applies a Snapshot sorts the snapshot's levels:
\* it leaves in bids and in asks the decoded levels in ascending order of
\* price, levels of equal price in the order of the snapshot's array (prices
\* that compare with each other, no NaN).
C15_SnapshotSorted ==
    [][(pc = "apply" /\ DecodesAsSnapshot(frame)) =>
        LET snap == OrderBookFromValue(frame).val IN
        /\ Comparable(snap.bids) => StableAscending(order_book'.bids, snap.bids)
        /\ Comparable(snap.asks) => StableAscending(order_book'.asks, snap.asks)]_vars

\* a Snapshot whose bids come with the higher price first is about to be applied
C15_Witness ==
    /\ pc = "apply"
    /\ DecodesAsSnapshot(frame)
    /\ LET snap == OrderBookFromValue(frame).val IN
        /\ Len(snap.bids) = 2
        /\ Comparable(snap.bids)
        /\ snap.bids[1].price > snap.bids[2].price

\* C16: a step that applies an Update keeps every level of the book, on its
\* side and as often as it was there; no side gets shorter; and each diff of
\* a size other than 0 adds a level of its price to the levels of that price
\* its side already has.
C16_UpdateKeepsLevels ==
    [][(pc = "apply" /\ DecodesAsUpdate(frame)) =>
        LET changes == Level2UpdateFromValue(frame).val.changes IN
        /\ KeepsLevels(order_book.bids, order_book'.bids)
        /\ KeepsLevels(order_book.asks, order_book'.asks)
        /\ Len(order_book'.bids) >= Len(order_book.bids)
        /\ Len(order_book'.asks) >= Len(order_book.asks)
        /\ \A i \in 1..Len(changes) :
            changes[i].level.size # 0 =>
                LET p == changes[i].level.price IN
                IF changes[i].order_side = "Buy"
                THEN Len(AtPrice(order_book'.asks, p)) > Len(AtPrice(order_book.asks, p))
                ELSE Len(AtPrice(order_book'.bids, p)) > Len(AtPrice(order_book.bids, p))]_vars

\* an Update with a Sell diff of a size other than 0 is about to be applied to
\* a book that has a bid of the diff's price and another size
C16_Witness ==
    /\ pc = "apply"
    /\ DecodesAsUpdate(frame)
    /\ \E i \in 1..Len(Level2UpdateFromValue(frame).val.changes) :
        LET c == Level2UpdateFromValue(frame).val.changes[i] IN
        /\ c.order_side = "Sell"
        /\ c.level.size # 0
        /\ \E j \in 1..Len(order_book.bids) :
            /\ order_book.bids[j].price = c.level.price
            /\ order_book.bids[j].size # c.level.size

\* C17: while no Snapshot has been applied (the book still has the empty type
\* of the default book), a step of update_order_book consumes its frame; an
\* Update adds the levels of its diffs of a size other than 0 to the book at
\* once, and the first Snapshot leaves the snapshot's levels and nothing else.
C17_EarlyUpdatesApplied ==
    [][(pc = "apply" /\ order_book.type_ = "") =>
        /\ frame' = NoFrame
        /\ DecodesAsUpdate(frame) =>
            LET changes == Level2UpdateFromValue(frame).val.changes IN
            /\ order_book'.type_ = ""
            /\ SameLevels(order_book'.asks, order_book.asks \o LevelsOf(changes, "Buy"))
            /\ SameLevels(order_book'.bids, order_book.bids \o LevelsOf(changes, "Sell"))
        /\ DecodesAsSnapshot(frame) =>
            /\ order_book'.type_ # ""
            /\ SameLevels(order_book'.bids, OrderBookFromValue(frame).val.bids)
            /\ SameLevels(order_book'.asks, OrderBookFromValue(frame).val.asks)]_vars

\* the first Snapshot is about to be applied to a book that holds a level an
\* earlier Update has added and the snapshot does not have
C17_Witness ==
    /\ pc = "apply"
    /\ DecodesAsSnapshot(frame)
    /\ order_book.type_ = ""
    /\ \E i \in 1..Len(order_book.bids) :
        Count(OrderBookFromValue(frame).val.bids, order_book.bids[i]) = 0

\* C18: while main awaits a frame, the only steps are the arrival of one
\* frame and the failure of the feed, and neither touches the selection or the
\* terminal; the frame that arrived is applied next, then comes one render
\* pass, and only a render pass leads to the teardown.
C18_OneFramePerPass ==
    [][/\ pc = "next_frame" =>
            /\ \/ pc' = "apply" /\ frame' # NoFrame /\ cause' = cause
               \/ pc' = "exit_err" /\ frame' = frame /\ cause' \in NextFrameErrors
            /\ UNCHANGED <<order_book, selected, terminal, closed>>
       /\ pc = "apply" => (pc' = "update_frame" /\ frame # NoFrame /\ frame' = NoFrame)
       /\ pc = "update_frame" =>
            /\ pc' \in {"next_frame", "teardown", "exit_err", "panicked"}
            /\ frame = NoFrame
            /\ frame' = NoFrame
       /\ pc' = "teardown" => pc = "update_frame"]_vars

\* main awaits a frame again: a frame has been applied, to a book that now has
\* levels on both sides, and a render pass has followed
C18_Witness ==
    /\ pc = "next_frame"
    /\ order_book.bids # <<>>
    /\ order_book.asks # <<>>

\* C19: a step that applies an Update leaves the book's product_id as it was
\* and appends one level per diff of a size other than 0, whatever product the
\* Update names; and a step that changes the book's product_id applies a
\* Snapshot, to the product_id of the snapshot.
C19_UpdateKeepsProduct ==
    [][/\ (pc = "apply" /\ DecodesAsUpdate(frame)) =>
            LET changes == Level2UpdateFromValue(frame).val.changes IN
            /\ order_book'.product_id = order_book.product_id
            /\ Len(order_book'.asks) = Len(order_book.asks) + Len(LevelsOf(changes, "Buy"))
            /\ Len(order_book'.bids) = Len(order_book.bids) + Len(LevelsOf(changes, "Sell"))
       /\ order_book'.product_id # order_book.product_id =>
            /\ pc = "apply"
            /\ DecodesAsSnapshot(frame)
            /\ order_book'.product_id = OrderBookFromValue(frame).val.product_id]_vars

\* an Update with a diff of a size other than 0 is about to be applied to a
\* book a Snapshot of another product has filled
C19_Witness ==
    /\ pc = "apply"
    /\ DecodesAsUpdate(frame)
    /\ order_book.product_id \notin {"", Level2UpdateFromValue(frame).val.product_id}
    /\ order_book.bids # <<>>
    /\ LET changes == Level2UpdateFromValue(frame).val.changes IN
        LevelsOf(changes, "Buy") \o LevelsOf(changes, "Sell") # <<>>

\* C20: whenever update_frame is about to run with a row selected, so that
\* App::next, and App::previous from row 0, compute `size - 1`, the book has
\* at least one row.
C20_NoUnderflow ==
    (pc = "update_frame" /\ selected.some) => RowCount(order_book) >= 1

====
